---- MODULE Spec2Model ----
\* Model of src/main.py (driver-box updater): the Updater context manager
\* (backup / restore / cleanup), replace_executable, migrate_config and the
\* try/with/except of __main__, over an abstract filesystem holding the three
\* installation paths, the backup root '.backup' and the scratch directory.
EXTENDS Integers, Sequences, FiniteSets, TLC

VARIABLES
    pc,            \* position of the script in __main__ / Updater
    live,          \* the live installation: filename -> entry
    dir_backup,    \* Updater.dir_backup ('.backup'): [exists, files]
    tmpdir,        \* scratch directory of temporary_directory(): [exists, files]
    version_from,  \* self.version_from.major
    version_to,    \* self.version_to.major
    webview,       \* self.webview
    resp,          \* content-type header of resp, "None" before requests.get
    exc_val,       \* exception leaving the with-body (argument of __exit__)
    reported,      \* e of 'except Exception as e' in __main__
    i,             \* index of the running for-loop
    calls,         \* how often restore() and cleanup() have been entered
    plan,          \* branch taken by migrate_config
    pre,           \* the live installation when the script started
    pre_backup,    \* the backup root when the script started
    at_exit,       \* the live installation and backup root when __exit__ was entered
    dir_temp,      \* dir_temp of temporary_directory(), 0 before a name is drawn
    cwd_other      \* names of the random_string() form already taken in os.getcwd()

vars == <<pc, live, dir_backup, tmpdir, version_from, version_to, webview,
          resp, exc_val, reported, i, calls, plan, pre, pre_backup, at_exit, dir_temp, cwd_other>>

\* ---------------------------------------------------------------- bounds
\* how many names random_string() can return (8 letters or digits each; none of
\* them is 'driver-box.exe', 'bin', 'conf' or '.backup')
MaxNames == 2

\* how often cleanup() is called in a row on one Updater
MaxDiscards == 2

\* largest major version number of the command line
MaxMajor == 6

\* most entries a backup root left behind by an earlier run holds
MaxStale == 1

\* ------------------------------------------------------------ filesystem
FILENAMES == <<"driver-box.exe", "bin", "conf">>

Names == {FILENAMES[n] : n \in 1..Len(FILENAMES)}

Absent == [kind |-> "none", data |-> "none"]

Exists(e) == e.kind # "none"

IsDir(e) == e.kind = "dir"

NoFiles == [f \in Names |-> Absent]

NoDir == [exists |-> FALSE, files |-> NoFiles]

EmptyDir == [exists |-> TRUE, files |-> NoFiles]

\* a backup root that is only created when missing, never emptied
RecreateBackupRoot_Keep(bk) == [bk EXCEPT !.exists = TRUE]

\* if self.dir_backup.exists(): shutil.rmtree(...); self.dir_backup.mkdir()
RecreateBackupRoot(bk) == EmptyDir

\* a removal that only succeeds on an empty directory (os.rmdir), errors ignored
RmtreeBackup_Rmdir(bk) == IF bk.files = NoFiles THEN NoDir ELSE bk

\* shutil.rmtree(self.dir_backup, ignore_errors=True)
RmtreeBackup(bk) == NoDir

\* a backup that copies the path and leaves the live one in place
MoveIntoBackup_Copy(lv, bk, f) ==
    [live |-> lv,
     dir_backup |-> [bk EXCEPT !.files[f] = lv[f]]]

\* shutil.move(src, dst) where dst does not exist: a rename
MoveIntoBackup(lv, bk, f) ==
    [live |-> [lv EXCEPT ![f] = Absent],
     dir_backup |-> [bk EXCEPT !.files[f] = lv[f]]]

\* rmtree(path, True) for a directory, unlink() for a file
Remove(lv, f) == [lv EXCEPT ![f] = Absent]

\* a restore that deletes the live path only when the backup holds an entry for it
RestoreEntry_OnlyRecorded(lv, bk, f) ==
    IF ~(bk.exists /\ Exists(bk.files[f]))
    THEN [live |-> lv, dir_backup |-> bk]
    ELSE [live |-> [lv EXCEPT ![f] = bk.files[f]],
          dir_backup |-> [bk EXCEPT !.files[f] = Absent]]

\* a restore that gives up on the backup root at the first missing entry
RestoreEntry_Distrust(lv, bk, f) ==
    LET lv1 == IF Exists(lv[f]) THEN Remove(lv, f) ELSE lv
    IN  IF ~(bk.exists /\ Exists(bk.files[f]))
        THEN [live |-> lv1, dir_backup |-> EmptyDir]
        ELSE [live |-> [lv1 EXCEPT ![f] = bk.files[f]],
              dir_backup |-> [bk EXCEPT !.files[f] = Absent]]

\* a restore that leaves an occupied live path alone
RestoreEntry_NoRemove(lv, bk, f) ==
    IF Exists(lv[f]) \/ ~(bk.exists /\ Exists(bk.files[f]))
    THEN [live |-> lv, dir_backup |-> bk]
    ELSE [live |-> [lv EXCEPT ![f] = bk.files[f]],
          dir_backup |-> [bk EXCEPT !.files[f] = Absent]]

\* one iteration of the loop of restore() when nothing raises
RestoreEntry(lv, bk, f) ==
    LET lv1 == IF Exists(lv[f]) THEN Remove(lv, f) ELSE lv
    IN  IF ~(bk.exists /\ Exists(bk.files[f]))
        THEN [live |-> lv1, dir_backup |-> bk]
        ELSE [live |-> [lv1 EXCEPT ![f] = bk.files[f]],
              dir_backup |-> [bk EXCEPT !.files[f] = Absent]]

RECURSIVE RestoreFrom(_, _, _)
RestoreFrom(lv, bk, n) ==
    IF n > Len(FILENAMES)
    THEN [live |-> lv, dir_backup |-> RmtreeBackup(bk)]
    ELSE LET r == RestoreEntry(lv, bk, FILENAMES[n])
         IN  RestoreFrom(r.live, r.dir_backup, n + 1)

\* restore() as a whole, when nothing raises
Restore(lv, bk) == RestoreFrom(lv, bk, 1)

\* --------------------------------------------------------- version policy
Majors == 0..MaxMajor

\* if self.version_from.major > self.version_to.major: raise ValueError
IsDowngrade(vf, vt) == vf > vt

\* the denylist with 'greater than 5' for 'at least 5'
MigrationPlan_Gt5(vf, vt) ==
    IF vf = vt THEN "noop"
    ELSE IF vf = 1 /\ (vt = 2 \/ vt > 5) THEN "unsupported"
    ELSE "copy"

\* the branches of migrate_config
MigrationPlan(vf, vt) ==
    IF vf = vt THEN "noop"
    ELSE IF vf = 1 /\ (vt = 2 \/ vt >= 5) THEN "unsupported"
    ELSE "copy"

\* ------------------------------------------------------------- artifact
ContentTypes == {"application/zip", "application/octet-stream", "text/html"}

\* a content-type check that lets every response through
Accepted_Any == ContentTypes

\* resp.headers.get('content-type') not in ('application/zip', 'application/octet-stream')
Accepted == {"application/zip", "application/octet-stream"}

\* paths = ('driver-box.exe', 'bin') if self.webview else ('driver-box.exe',)
Paths(wv) == IF wv THEN <<"driver-box.exe", "bin">> ELSE <<"driver-box.exe">>

NewEntry(f) == [kind |-> IF f = "driver-box.exe" THEN "file" ELSE "dir", data |-> "new"]

\* what z.extract leaves in the scratch directory for an archive holding 'members'
Extracted(members) ==
    [exists |-> TRUE,
     files |-> [f \in Names |-> IF f \in members THEN NewEntry(f) ELSE Absent]]

\* ------------------------------------------------------ scratch directory
\* the values of random_string()
TmpNames == 1..MaxNames

\* a finally that keeps the directory (delete=False)
RmtreeTmp_Keep(tmp) == tmp

\* finally: if delete: shutil.rmtree(dir_temp, True)
RmtreeTmp(tmp) == NoDir

\* dir_temp.exists()
NameTaken(name, others) == name \in others

\* ------------------------------------------------------------------ Init
\* the installation manifest: the executable is a file, bin and conf directories
ManifestKind(f) == IF f = "driver-box.exe" THEN "file" ELSE "dir"

OldEntry(f) == [kind |-> ManifestKind(f), data |-> "old"]

StaleEntry(f) == [kind |-> ManifestKind(f), data |-> "stale"]

\* the live installations the script may be started in
Installations == {[f \in Names |-> IF f \in S THEN OldEntry(f) ELSE Absent] : S \in SUBSET Names}

\* the backup roots an earlier (killed) run may have left behind
LeftoverBackups ==
    {NoDir} \cup
    {[exists |-> TRUE, files |-> [f \in Names |-> IF f \in S THEN StaleEntry(f) ELSE Absent]] :
        S \in {T \in SUBSET Names : Cardinality(T) <= MaxStale}}

Init ==
    /\ pc = "init"
    /\ live \in Installations
    /\ dir_backup \in LeftoverBackups
    /\ tmpdir = NoDir
    /\ version_from \in Majors
    /\ version_to \in Majors
    /\ webview \in BOOLEAN
    /\ resp = "None"
    /\ exc_val = "None"
    /\ reported = "None"
    /\ i = 0
    /\ calls = [restore |-> 0, cleanup |-> 0]
    /\ plan = "none"
    /\ pre = live
    /\ pre_backup = dir_backup
    /\ at_exit = [live |-> NoFiles, dir_backup |-> NoDir]
    /\ dir_temp = 0
    /\ cwd_other \in {S \in SUBSET TmpNames : S # TmpNames}

\* --------------------------------------------------------------- actions
\* Updater.__init__
Construct ==
    /\ pc = "init"
    /\ dir_backup' = RecreateBackupRoot(dir_backup)
    /\ IF IsDowngrade(version_from, version_to)
       THEN /\ reported' = "DowngradeNotSupported"
            /\ pc' = "failed"
       ELSE /\ pc' = "enter"
            /\ UNCHANGED reported
    /\ UNCHANGED <<live, tmpdir, version_from, version_to, webview, resp,
                   exc_val, i, calls, plan, pre, pre_backup, at_exit, dir_temp, cwd_other>>

\* __enter__ -> backup(): the backup root is recreated
BackupBegin ==
    /\ pc = "enter"
    /\ dir_backup' = RecreateBackupRoot(dir_backup)
    /\ pc' = "backup"
    /\ i' = 1
    /\ UNCHANGED <<live, tmpdir, version_from, version_to, webview, resp,
                   exc_val, reported, calls, plan, pre, pre_backup, at_exit, dir_temp, cwd_other>>

\* one iteration of the loop of backup(); shutil.move may raise, and an
\* exception leaving __enter__ reaches the except clause without __exit__
BackupStep ==
    /\ pc = "backup"
    /\ i <= Len(FILENAMES)
    /\ LET f == FILENAMES[i]
       IN  IF ~Exists(live[f])
           THEN /\ i' = i + 1
                /\ UNCHANGED <<live, dir_backup, pc, reported>>
           ELSE \E ok \in BOOLEAN :
                  IF ok
                  THEN LET r == MoveIntoBackup(live, dir_backup, f)
                       IN  /\ live' = r.live
                           /\ dir_backup' = r.dir_backup
                           /\ i' = i + 1
                           /\ UNCHANGED <<pc, reported>>
                  ELSE /\ reported' = "BackupFailed"
                       /\ pc' = "failed"
                       /\ UNCHANGED <<live, dir_backup, i>>
    /\ UNCHANGED <<tmpdir, version_from, version_to, webview, resp,
                   exc_val, calls, plan, pre, pre_backup, at_exit, dir_temp, cwd_other>>

\* backup() returns, __enter__ returns self, update() starts
BackupEnd ==
    /\ pc = "backup"
    /\ i > Len(FILENAMES)
    /\ pc' = "request"
    /\ UNCHANGED <<live, dir_backup, tmpdir, version_from, version_to, webview,
                   resp, exc_val, reported, i, calls, plan, pre, pre_backup, at_exit, dir_temp, cwd_other>>

\* an exception raised inside the with-body: __exit__ receives it
Raise(e) ==
    /\ exc_val' = e
    /\ pc' = "exit"

\* requests.get and the content-type check of replace_executable
Request ==
    /\ pc = "request"
    /\ \/ /\ Raise("DownloadFailed")
          /\ UNCHANGED resp
       \/ \E ct \in ContentTypes :
            /\ resp' = ct
            /\ IF ct \notin Accepted
               THEN Raise("InvalidArtifact")
               ELSE /\ pc' = "mktmp"
                    /\ UNCHANGED exc_val
    /\ UNCHANGED <<live, dir_backup, tmpdir, version_from, version_to, webview,
                   reported, i, calls, plan, pre, pre_backup, at_exit, dir_temp, cwd_other>>

\* temporary_directory(dir=os.getcwd()): the first random_string()
PickName ==
    /\ pc = "mktmp"
    /\ dir_temp' \in TmpNames
    /\ pc' = "tmpcheck"
    /\ UNCHANGED <<live, dir_backup, tmpdir, version_from, version_to, webview, resp,
                   exc_val, reported, i, calls, plan, pre, pre_backup, at_exit, cwd_other>>

\* while dir_temp.exists(): another random_string()
RetryName ==
    /\ pc = "tmpcheck"
    /\ NameTaken(dir_temp, cwd_other)
    /\ dir_temp' \in TmpNames
    /\ UNCHANGED <<pc, live, dir_backup, tmpdir, version_from, version_to, webview, resp,
                   exc_val, reported, i, calls, plan, pre, pre_backup, at_exit, cwd_other>>

\* os.mkdir(dir_temp, 0o777), which raises FileExistsError on a taken name
MakeTmpdir ==
    /\ pc = "tmpcheck"
    /\ ~NameTaken(dir_temp, cwd_other)
    /\ IF dir_temp \in cwd_other
       THEN /\ Raise("FileExistsError")
            /\ UNCHANGED tmpdir
       ELSE /\ tmpdir' = EmptyDir
            /\ pc' = "download"
            /\ UNCHANGED exc_val
    /\ UNCHANGED <<live, dir_backup, version_from, version_to, webview, resp,
                   reported, i, calls, plan, pre, pre_backup, at_exit, dir_temp, cwd_other>>

\* the download loop; on an exception the finally of temporary_directory runs
Download ==
    /\ pc = "download"
    /\ \/ /\ pc' = "extract"
          /\ UNCHANGED <<tmpdir, exc_val>>
       \/ /\ tmpdir' = RmtreeTmp(tmpdir)
          /\ Raise("DownloadFailed")
    /\ UNCHANGED <<live, dir_backup, version_from, version_to, webview, resp,
                   reported, i, calls, plan, pre, pre_backup, at_exit, dir_temp, cwd_other>>

\* zipfile.ZipFile(...) and z.extract of every member
Extract ==
    /\ pc = "extract"
    /\ \/ \E members \in SUBSET {"driver-box.exe", "bin"} :
            /\ tmpdir' = Extracted(members)
            /\ pc' = "swap"
            /\ i' = 1
            /\ UNCHANGED exc_val
       \/ /\ tmpdir' = RmtreeTmp(tmpdir)
          /\ Raise("CorruptArchive")
          /\ UNCHANGED i
    /\ UNCHANGED <<live, dir_backup, version_from, version_to, webview, resp,
                   reported, calls, plan, pre, pre_backup, at_exit, dir_temp, cwd_other>>

\* shutil.move(tmpdir.joinpath(path), Path(path)) after the live copy is gone
MoveIntoPlace(lv, tmp, f) ==
    [live |-> [lv EXCEPT ![f] = tmp.files[f]],
     tmpdir |-> [tmp EXCEPT !.files[f] = Absent]]

\* one iteration of 'for path in map(Path, paths)': unlink and shutil.move may raise
SwapStep ==
    /\ pc = "swap"
    /\ i <= Len(Paths(webview))
    /\ LET f == Paths(webview)[i]
           lv1 == IF Exists(live[f]) THEN Remove(live, f) ELSE live
       IN  \/ /\ Exists(live[f])
              /\ ~IsDir(live[f])
              /\ tmpdir' = RmtreeTmp(tmpdir)
              /\ Raise("InstallFailed")
              /\ UNCHANGED <<live, i>>
           \/ /\ Exists(tmpdir.files[f])
              /\ live' = lv1
              /\ tmpdir' = RmtreeTmp(tmpdir)
              /\ Raise("InstallFailed")
              /\ UNCHANGED i
           \/ /\ IF Exists(tmpdir.files[f])
                 THEN LET r == MoveIntoPlace(lv1, tmpdir, f)
                      IN  /\ live' = r.live
                          /\ tmpdir' = r.tmpdir
                 ELSE /\ live' = lv1
                      /\ UNCHANGED tmpdir
              /\ i' = i + 1
              /\ UNCHANGED <<pc, exc_val>>
    /\ UNCHANGED <<dir_backup, version_from, version_to, webview, resp,
                   reported, calls, plan, pre, pre_backup, at_exit, dir_temp, cwd_other>>

\* the with-block of temporary_directory ends: shutil.rmtree(dir_temp, True)
SwapEnd ==
    /\ pc = "swap"
    /\ i > Len(Paths(webview))
    /\ tmpdir' = RmtreeTmp(tmpdir)
    /\ pc' = "migrate"
    /\ UNCHANGED <<live, dir_backup, version_from, version_to, webview, resp,
                   exc_val, reported, i, calls, plan, pre, pre_backup, at_exit, dir_temp, cwd_other>>

\* a migration that moves conf out of the backup root
CopyTree_Move(lv, bk) ==
    [live |-> [lv EXCEPT !["conf"] = bk.files["conf"]],
     dir_backup |-> [bk EXCEPT !.files["conf"] = Absent]]

\* shutil.copytree(self.dir_backup / 'conf', Path('conf')) when nothing raises
CopyTree(lv, bk) ==
    [live |-> [lv EXCEPT !["conf"] = bk.files["conf"]],
     dir_backup |-> bk]

\* migrate_config; shutil.copytree raises when the source is missing or not a
\* directory, when the destination exists, or part-way through the copy
MigrateConfig ==
    /\ pc = "migrate"
    /\ plan' = MigrationPlan(version_from, version_to)
    /\ LET src == dir_backup.files["conf"]
       IN  CASE plan' = "noop" ->
                  /\ pc' = "exit"
                  /\ UNCHANGED <<live, dir_backup, exc_val>>
             [] plan' = "unsupported" ->
                  /\ Raise("UnsupportedMigration")
                  /\ UNCHANGED <<live, dir_backup>>
             [] OTHER ->
                  IF ~IsDir(src) \/ Exists(live["conf"])
                  THEN /\ Raise("FileNotFoundError")
                       /\ UNCHANGED <<live, dir_backup>>
                  ELSE \/ LET r == CopyTree(live, dir_backup)
                          IN  /\ live' = r.live
                              /\ dir_backup' = r.dir_backup
                              /\ pc' = "exit"
                              /\ UNCHANGED exc_val
                       \/ /\ live' = [live EXCEPT !["conf"] = [kind |-> "dir", data |-> "partial"]]
                          /\ Raise("MigrationFailed")
                          /\ UNCHANGED dir_backup
    /\ UNCHANGED <<tmpdir, version_from, version_to, webview, resp,
                   reported, i, calls, pre, pre_backup, at_exit, dir_temp, cwd_other>>

\* __exit__ with exc_type set: restore() is entered
ExitRestore ==
    /\ pc = "exit"
    /\ exc_val # "None"
    /\ at_exit' = [live |-> live, dir_backup |-> dir_backup]
    /\ calls' = [calls EXCEPT !.restore = @ + 1]
    /\ pc' = "restore"
    /\ i' = 1
    /\ UNCHANGED <<live, dir_backup, tmpdir, version_from, version_to, webview,
                   resp, exc_val, reported, plan, pre, pre_backup, dir_temp, cwd_other>>

\* __exit__ without an exception: cleanup(), then 'Update successful'
ExitCleanup ==
    /\ pc = "exit"
    /\ exc_val = "None"
    /\ at_exit' = [live |-> live, dir_backup |-> dir_backup]
    /\ calls' = [calls EXCEPT !.cleanup = @ + 1]
    /\ dir_backup' = RmtreeBackup(dir_backup)
    /\ pc' = "success"
    /\ UNCHANGED <<live, tmpdir, version_from, version_to, webview, resp,
                   exc_val, reported, i, plan, pre, pre_backup, dir_temp, cwd_other>>

\* one iteration of the loop of restore(); unlink and shutil.move may raise,
\* and an exception raised inside __exit__ is the one the caller catches
RestoreStep ==
    /\ pc = "restore"
    /\ i <= Len(FILENAMES)
    /\ LET f == FILENAMES[i]
           lv1 == IF Exists(live[f]) THEN Remove(live, f) ELSE live
       IN  \/ /\ Exists(live[f])
              /\ ~IsDir(live[f])
              /\ reported' = "RestoreFailed"
              /\ pc' = "failed"
              /\ UNCHANGED <<live, dir_backup, i>>
           \/ /\ Exists(dir_backup.files[f])
              /\ live' = lv1
              /\ reported' = "RestoreFailed"
              /\ pc' = "failed"
              /\ UNCHANGED <<dir_backup, i>>
           \/ LET r == RestoreEntry(live, dir_backup, f)
              IN  /\ live' = r.live
                  /\ dir_backup' = r.dir_backup
                  /\ i' = i + 1
                  /\ UNCHANGED <<pc, reported>>
    /\ UNCHANGED <<tmpdir, version_from, version_to, webview, resp,
                   exc_val, calls, plan, pre, pre_backup, at_exit, dir_temp, cwd_other>>

\* restore() removes the backup root and returns; __exit__ returns False and
\* the exception of the body reaches the except clause
RestoreEnd ==
    /\ pc = "restore"
    /\ i > Len(FILENAMES)
    /\ dir_backup' = RmtreeBackup(dir_backup)
    /\ reported' = exc_val
    /\ pc' = "failed"
    /\ UNCHANGED <<live, tmpdir, version_from, version_to, webview, resp,
                   exc_val, i, calls, plan, pre, pre_backup, at_exit, dir_temp, cwd_other>>

Next ==
    \/ Construct
    \/ BackupBegin
    \/ BackupStep
    \/ BackupEnd
    \/ Request
    \/ PickName
    \/ RetryName
    \/ MakeTmpdir
    \/ Download
    \/ Extract
    \/ SwapStep
    \/ SwapEnd
    \/ MigrateConfig
    \/ ExitRestore
    \/ ExitCleanup
    \/ RestoreStep
    \/ RestoreEnd

Spec == Init /\ [][Next]_vars

\* ------------------------------------------- cleanup() called on its own
\* the backup roots cleanup() may find: none, a leftover one, or one that
\* holds what backup() moved aside
BackupRoots ==
    LeftoverBackups \cup {[exists |-> TRUE, files |-> inst] : inst \in Installations}

InitDiscard ==
    /\ pc = "cleanup"
    /\ live \in Installations
    /\ dir_backup \in BackupRoots
    /\ tmpdir = NoDir
    /\ version_from \in Majors
    /\ version_to = version_from
    /\ webview \in BOOLEAN
    /\ resp = "None"
    /\ exc_val = "None"
    /\ reported = "None"
    /\ i = 0
    /\ calls = [restore |-> 0, cleanup |-> 0]
    /\ plan = "none"
    /\ pre = live
    /\ pre_backup = dir_backup
    /\ at_exit = [live |-> NoFiles, dir_backup |-> NoDir]
    /\ dir_temp = 0
    /\ cwd_other = {}

\* Updater.cleanup(): rmtree with ignore_errors=True raises nothing
Cleanup ==
    /\ pc = "cleanup"
    /\ calls.cleanup < MaxDiscards
    /\ calls' = [calls EXCEPT !.cleanup = @ + 1]
    /\ dir_backup' = RmtreeBackup(dir_backup)
    /\ UNCHANGED <<pc, live, tmpdir, version_from, version_to, webview, resp,
                   exc_val, reported, i, plan, pre, pre_backup, at_exit, dir_temp, cwd_other>>

NextDiscard == Cleanup

SpecDiscard == InitDiscard /\ [][NextDiscard]_vars

\* ================================================================ claims
RolledBack == pc = "failed" /\ exc_val # "None" /\ reported = exc_val

\* C1: a downgrade (version_from.major > version_to.major) fails with the
\* downgrade error, and when that error is raised nothing on disk has changed:
\* the backup root is as it was (absent if it was absent, untouched if present)
\* and so is the live installation.
C1_DowngradeMutatesNothing ==
    /\ (IsDowngrade(version_from, version_to) /\ pc # "init")
          => (pc = "failed" /\ reported = "DowngradeNotSupported")
    /\ reported = "DowngradeNotSupported"
          => (dir_backup = pre_backup /\ live = pre)

\* C2: a committed update within one major version and without the bundled
\* runtime took the no-op migration plan and leaves the live conf directory as
\* it was before the transaction.
C2_SameMajorKeepsConf ==
    (pc = "success" /\ version_from = version_to /\ ~webview)
        => (plan = "noop" /\ live["conf"] = pre["conf"])

\* C3: after a failure anywhere in the body of the transaction, once restore
\* has run to its end the three live paths are exactly as before the
\* transaction and the backup root is gone.
C3_RollbackRestoresInstallation ==
    RolledBack => (live = pre /\ ~dir_backup.exists)

\* C3 witness: the new executable was moved in, the move of bin failed, and the
\* rollback has brought back an installation that had all three paths.
C3_Witness ==
    /\ RolledBack
    /\ exc_val = "InstallFailed"
    /\ calls.restore = 1
    /\ \A f \in Names : Exists(pre[f]) /\ live[f] = pre[f]

\* C4: a supported update across a major-version boundary whose install step
\* succeeded commits, whatever the installation looked like before (the
\* copy-config step raises nothing unless the copy itself is interrupted), and
\* the live conf afterwards equals the conf before the transaction.
C4_MajorUpdateCopiesConf ==
    (plan = "copy" /\ exc_val # "MigrationFailed")
        => /\ exc_val = "None"
           /\ pc \in {"exit", "success"}
           /\ live["conf"] = pre["conf"]

\* C5: for a pair on the unsupported-jump list the download never begins (no
\* request is issued, no scratch directory is made), and when the
\* unsupported-migration error is raised every live path is still in place.
C5_UnsupportedFailsBeforeDownload ==
    /\ MigrationPlan(version_from, version_to) = "unsupported"
          => (resp = "None" /\ ~tmpdir.exists /\ pc \notin {"mktmp", "tmpcheck", "download", "extract", "swap"})
    /\ (pc = "exit" /\ exc_val = "UnsupportedMigration") => live = pre

\* C6: exactly one of commit and rollback runs, once: commit iff the body ended
\* without error, rollback otherwise; restore is skipped only when nothing has
\* been moved into the backup root yet.
C6_ExactlyOneOfCommitRollback ==
    /\ calls.restore + calls.cleanup <= 1
    /\ pc = "success" => (calls.cleanup = 1 /\ calls.restore = 0)
    /\ pc = "failed" =>
          /\ calls.cleanup = 0
          /\ (exc_val # "None" => calls.restore = 1)
          /\ (calls.restore = 0 => \A f \in Names : ~Exists(dir_backup.files[f]))

\* C7: when the body failed, the error the caller gets is the body's error,
\* also when restore itself failed.
C7_OriginalErrorReported ==
    (pc = "failed" /\ exc_val # "None") => reported = exc_val

\* C8: restore applied to the state backup has just produced, with nothing
\* changed in between, gives back the live installation the script started
\* with and leaves no backup root, whatever backup root was there at the start.
C8_BackupRestoreRoundTrip ==
    pc = "request" => Restore(live, dir_backup) = [live |-> pre, dir_backup |-> NoDir]

\* C8 witness: backup has completed for an installation with all three paths
\* that was started with a leftover backup root holding an entry.
C8_Witness ==
    /\ pc = "request"
    /\ \A f \in Names : Exists(pre[f]) /\ dir_backup.files[f] = pre[f]
    /\ \E f \in Names : Exists(pre_backup.files[f])

Denied(vf, vt) == vf = 1 /\ (vt = 2 \/ vt >= 5)

\* C9: with from.major <= to.major the direction check passes; the plan
\* migrate_config takes is no-op iff the majors are equal, unsupported iff
\* from.major = 1 and to.major is 2 or at least 5, copy-config for every other
\* pair, and only the unsupported plan raises the unsupported-migration error.
C9_MigrationPolicyTable ==
    /\ version_from <= version_to => reported # "DowngradeNotSupported"
    /\ (version_from <= version_to /\ pc # "init") => pc # "failed" \/ reported # "DowngradeNotSupported"
    /\ plan # "none" =>
          /\ version_from <= version_to
          /\ plan = "noop" <=> version_from = version_to
          /\ plan = "unsupported" <=> Denied(version_from, version_to)
          /\ plan = "copy" <=> (version_from # version_to /\ ~Denied(version_from, version_to))
          /\ exc_val = "UnsupportedMigration" <=> plan = "unsupported"

\* C9 witness: migrate_config has taken the copy-config plan for 1 -> 4.
C9_Witness ==
    /\ plan = "copy"
    /\ version_from = 1
    /\ version_to = 4
    /\ pc = "success"

\* C10: when the install step has returned without error, and so in every
\* committed transaction, the new executable is at its live location, and so
\* is the new bin directory when the bundled runtime was asked for.
C10_CommittedHasNewExecutable ==
    pc \in {"migrate", "success"} =>
        /\ live["driver-box.exe"] = NewEntry("driver-box.exe")
        /\ webview => live["bin"] = NewEntry("bin")

\* C11: after a committed transaction without the bundled runtime the live bin
\* directory is the one from before the transaction.
C11_CommitKeepsBin ==
    (pc = "success" /\ ~webview) => live["bin"] = pre["bin"]

\* C12: a response whose content type is neither application/zip nor
\* application/octet-stream makes the install step fail with the
\* invalid-artifact error before a scratch directory exists and before the
\* install step has touched a live path; restore then runs, and once it has
\* run to its end the live installation is the pre-update one.
C12_BadContentTypeRollsBack ==
    resp \notin {"None", "application/zip", "application/octet-stream"} =>
        /\ exc_val = "InvalidArtifact"
        /\ ~tmpdir.exists
        /\ pc \in {"exit", "restore", "failed"}
        /\ pc = "exit" => (dir_backup.files = pre /\ \A f \in Names : ~Exists(live[f]))
        /\ pc \in {"restore", "failed"} => calls.restore = 1
        /\ RolledBack => live = pre

\* C12 witness: a text/html response has been rejected and the rollback has
\* brought back an installation with all three paths.
C12_Witness ==
    /\ resp = "text/html"
    /\ RolledBack
    /\ exc_val = "InvalidArtifact"
    /\ \A f \in Names : Exists(pre[f]) /\ live[f] = pre[f]

InBody == pc \in {"request", "mktmp", "tmpcheck", "download", "extract", "swap", "migrate", "exit"}

\* C14: from the end of backup until commit or rollback begins the backup root
\* exists and holds every path that was moved aside, unmodified; it is not
\* discarded before migration has completed.
C14_BackupKeptUntilExit ==
    InBody => (dir_backup.exists /\ dir_backup.files = pre)

\* C14 witness: the copy-config migration has completed for an installation
\* with all three paths, and __exit__ has not run yet.
C14_Witness ==
    /\ pc = "exit"
    /\ plan = "copy"
    /\ exc_val = "None"
    /\ \A f \in Names : Exists(pre[f])
    /\ live["conf"] = pre["conf"]

\* C15: right after backup completes the backup root holds exactly the paths
\* that were live when it started, nothing of an earlier backup root, and none
\* of the three paths is left at its live location.
C15_BackupHoldsExactlyLivePaths ==
    pc = "request" =>
        /\ dir_backup.exists
        /\ \A f \in Names :
              /\ dir_backup.files[f] = pre[f]
              /\ dir_backup.files[f].data # "stale"
              /\ ~Exists(live[f])

\* C15 witness: backup has completed where the earlier backup root held an
\* entry for a path the live installation did not have.
C15_Witness ==
    /\ pc = "request"
    /\ \E f \in Names : Exists(pre_backup.files[f]) /\ ~Exists(pre[f])
    /\ \E f \in Names : Exists(pre[f]) /\ dir_backup.files[f] = pre[f]

\* C13: cleanup() called once, twice in a row, or with no backup root present
\* raises nothing, leaves no backup root and changes no live path.
C13_DiscardIdempotent ==
    (pc = "cleanup" /\ calls.cleanup >= 1) =>
        /\ ~dir_backup.exists
        /\ dir_backup = NoDir
        /\ live = pre
        /\ reported = "None"
        /\ exc_val = "None"

\* C13 witness: cleanup() has run twice on a backup root that held entries,
\* next to a live installation that has paths.
C13_Witness ==
    /\ pc = "cleanup"
    /\ calls.cleanup = 2
    /\ \E f \in Names : Exists(pre_backup.files[f])
    /\ \E f \in Names : Exists(live[f])

\* the n-th filename has been handled by the loop of restore()
Restored(n) == calls.restore = 1 /\ n < i

\* C16 as stated: restore deletes a live path only if the backup holds an entry
\* for it; a live path without a backup entry is as it was when restore began.
C16_RestoreLeavesUnrecordedPaths ==
    \A n \in 1..Len(FILENAMES) :
        (Restored(n) /\ ~Exists(at_exit.dir_backup.files[FILENAMES[n]]))
            => live[FILENAMES[n]] = at_exit.live[FILENAMES[n]]

\* C16 amended: restore empties each of the three live paths whether or not
\* the backup holds an entry for it and then moves the entry back if there is
\* one: a handled path equals its backup entry, or is absent when the backup
\* had none; the paths the loop has not reached yet are unchanged.
C16_RestoreClearsEveryPath ==
    \A n \in 1..Len(FILENAMES) :
        /\ Restored(n) =>
              live[FILENAMES[n]] = at_exit.dir_backup.files[FILENAMES[n]]
        /\ (pc = "restore" /\ n >= i) =>
              live[FILENAMES[n]] = at_exit.live[FILENAMES[n]]

\* C16 witness: the newly installed executable, for which the backup held no
\* entry, has been deleted by restore.
C16_Witness ==
    /\ Restored(1)
    /\ at_exit.live["driver-box.exe"] = NewEntry("driver-box.exe")
    /\ ~Exists(at_exit.dir_backup.files["driver-box.exe"])
    /\ ~Exists(live["driver-box.exe"])

\* C17: a backup root that lacks an entry does not make restore fail: restore
\* raises only at a path it had to delete or move, and when it reaches its end
\* every entry the backup held is back at its live location and the backup
\* root is gone.
C17_RestoreSkipsMissingEntries ==
    /\ reported = "RestoreFailed" =>
          \/ Exists(dir_backup.files[FILENAMES[i]])
          \/ Exists(live[FILENAMES[i]])
    /\ RolledBack =>
          /\ ~dir_backup.exists
          /\ \A f \in Names :
                Exists(at_exit.dir_backup.files[f]) => live[f] = at_exit.dir_backup.files[f]

\* C17 witness: restore has reached its end where the backup lacked the
\* executable and held bin and conf, which are back in place.
C17_Witness ==
    /\ RolledBack
    /\ ~Exists(at_exit.dir_backup.files["driver-box.exe"])
    /\ Exists(at_exit.dir_backup.files["bin"])
    /\ Exists(at_exit.dir_backup.files["conf"])
    /\ live["bin"] = pre["bin"]
    /\ live["conf"] = pre["conf"]

\* C18: the scratch directory exists only while the install step is inside its
\* with-block: it is gone on every exit of that step, by return or by
\* exception, and so once the transaction has committed or rolled back; the
\* name it is created under is not taken by an existing path, so os.mkdir never
\* fails on an existing name.
C18_ScratchDirectoryRemoved ==
    /\ tmpdir.exists => pc \in {"download", "extract", "swap"}
    /\ pc \in {"migrate", "exit", "restore", "success", "failed"} => tmpdir = NoDir
    /\ tmpdir.exists => (dir_temp \in TmpNames /\ dir_temp \notin cwd_other)
    /\ exc_val # "FileExistsError"

\* C18 witness: the swap-in raised inside the with-block, the transaction has
\* rolled back, no scratch directory is left, and a name of the random form
\* was taken in the installation root when the scratch directory was made.
C18_Witness ==
    /\ RolledBack
    /\ exc_val = "InstallFailed"
    /\ dir_temp \in TmpNames
    /\ cwd_other # {}
    /\ ~tmpdir.exists
====
